---- MODULE Spec2Model ----
(***************************************************************************)
(* Model of send_whatsapp.py (kankotri-automator): the run orchestrator    *)
(* send_whatsapp_messages, the status reporter log_status and the pure     *)
(* helpers clean_phone_number and get_safe_filename.                       *)
(* NormalizeSpec and NameSpec run the two helpers on their own, NameSpec   *)
(* next to the document writer process_pdfs of process_kankotri.py.       *)
(*                                                                         *)
(* Strings are sequences of one-character strings.  Every Playwright call  *)
(* either returns or raises one of Exceptions; requests.post returns,      *)
(* raises, or never returns (it is called without a timeout).              *)
(***************************************************************************)
EXTENDS Integers, Sequences, FiniteSets, TLC

VARIABLES tasks, files, pc, i, formatted_number, pdf_path, exc, call,
          launches, page, sink, reports, posted, apiFailed, trace

vars == <<tasks, files, pc, i, formatted_number, pdf_path, exc, call,
          launches, page, sink, reports, posted, apiFailed, trace>>

(* ------------------------------ bounds --------------------------------- *)

MaxTasks == 2

MaxRawLen == 12

MaxNameLen == 3

(* ------------------------- program constants --------------------------- *)

COUNTRY_CODE == <<"+", "9", "1">>

MinDigits == 10

CoreLen == 10

None == <<"<None>">>

Digit == {"0", "1", "2", "3", "4", "5", "6", "7", "8", "9"}

Forbidden == {"<", ">", ":", "\"", "/", "\\", "|", "?", "*"}

Whitespace == {" ", "\t", "\n"}

client_folder == <<"o", "u", "t">>

PdfExt == <<".", "p", "d", "f">>

(* --------------------------- pure helpers ------------------------------ *)

IsDigit(c) == c \in Digit

\* mutant: the first digits are kept instead of the last
LastN_First(s, n) == IF Len(s) <= n THEN s ELSE SubSeq(s, 1, n)

\* digits[-10:]
LastN(s, n) == IF Len(s) <= n THEN s ELSE SubSeq(s, Len(s) - n + 1, Len(s))

\* mutant: the length check is missing
clean_phone_number_NoCheck(phone) ==
    COUNTRY_CODE \o LastN(SelectSeq(phone, IsDigit), CoreLen)

clean_phone_number(phone) ==
    LET digits == SelectSeq(phone, IsDigit)
    IN  IF Len(digits) < MinDigits
        THEN None
        ELSE COUNTRY_CODE \o LastN(digits, CoreLen)

\* mutant: re.sub called with count=1, only the first run is replaced
ReSub_First(s) ==
    IF \A p \in 1..Len(s) : s[p] \notin Forbidden THEN s
    ELSE LET p == CHOOSE p \in 1..Len(s) :
                      s[p] \in Forbidden /\ \A q \in 1..(p - 1) : s[q] \notin Forbidden
             q == CHOOSE q \in p..Len(s) :
                      /\ \A m \in p..q : s[m] \in Forbidden
                      /\ (q = Len(s) \/ s[q + 1] \notin Forbidden)
         IN  SubSeq(s, 1, p - 1) \o <<"_">> \o SubSeq(s, q + 1, Len(s))

\* re.sub(r'[<>:"/\\|?*]+', '_', name): every maximal run of forbidden
\* characters becomes one underscore
RECURSIVE ReSub(_)
ReSub(s) ==
    IF s = <<>> THEN <<>>
    ELSE IF Head(s) \in Forbidden
         THEN IF Len(s) > 1 /\ s[2] \in Forbidden
              THEN ReSub(Tail(s))
              ELSE <<"_">> \o ReSub(Tail(s))
         ELSE <<Head(s)>> \o ReSub(Tail(s))

RECURSIVE LStrip(_)
LStrip(s) ==
    IF s # <<>> /\ Head(s) \in Whitespace THEN LStrip(Tail(s)) ELSE s

RECURSIVE RStrip(_)
RStrip(s) ==
    IF s # <<>> /\ s[Len(s)] \in Whitespace
    THEN RStrip(SubSeq(s, 1, Len(s) - 1))
    ELSE s

Strip(s) == RStrip(LStrip(s))

\* mutant: the .strip() is missing
get_safe_filename_NoStrip(name) == ReSub(name)

get_safe_filename(name) == Strip(ReSub(name))

\* os.path.join(client_folder, f"{safe_name}.pdf")
PdfPath(name) == client_folder \o <<"/">> \o get_safe_filename(name) \o PdfExt

(* ------------------------- inputs of the run --------------------------- *)

GoodNumber == <<"9", "8", "7", "6", "5", " ", "4", "3", "2", "1", "0">>

LongNumber == <<"+", "1", "9", "8", "7", "6", "5", "4", "3", "2", "1", "0">>

ShortNumber == <<"9", "8", "7", "-", "6", "5">>

TaskPool ==
    { [name |-> <<"a", ":", "b">>, raw_number |-> LongNumber],
      [name |-> <<"a", ":", "b">>, raw_number |-> ShortNumber],
      [name |-> <<"c">>,           raw_number |-> GoodNumber],
      [name |-> <<"c">>,           raw_number |-> ShortNumber] }

\* the documents present in the client folder
StoredFiles == { PdfPath(<<"a", ":", "b">>) }

TaskLists == UNION { [1..n -> TaskPool] : n \in 1..MaxTasks }

Exceptions ==
    { [kind |-> "TimeoutError", msg |-> "Timeout exceeded"],
      [kind |-> "Error",        msg |-> "Target closed"] }

Ok == [kind |-> "ok", msg |-> ""]

NoCall == [status |-> "", number |-> <<>>, message |-> <<>>, ret |-> ""]

(* ------------------------------ state ---------------------------------- *)

Init ==
    /\ tasks \in TaskLists
    /\ files = StoredFiles
    /\ pc = "launch"
    /\ i = 0
    /\ formatted_number = None
    /\ pdf_path = <<>>
    /\ exc = Ok
    /\ call = NoCall
    /\ launches = 0
    /\ page = 0
    /\ sink = "up"
    /\ reports = <<>>
    /\ posted = {}
    /\ apiFailed = {}
    /\ trace = <<>>

Event(op, arg, res) == [idx |-> i, op |-> op, page |-> page, arg |-> arg, res |-> res]

Record(op, arg, res) == trace' = Append(trace, Event(op, arg, res))

\* a call of log_status(name, number, status, message) whose return
\* continues at ret
CallLog(number, status, message, ret) ==
    /\ call' = [status |-> status, number |-> number, message |-> message, ret |-> ret]
    /\ pc' = "log_status"

(* --------------------- session establishment --------------------------- *)

loopVars == <<formatted_number, pdf_path, exc, call>>

logVars == <<sink, reports, posted, apiFailed>>

\* p.chromium.launch_persistent_context(...) returns; page = browser.pages[0]
LaunchOk ==
    /\ pc = "launch"
    /\ launches' = launches + 1
    /\ page' = launches + 1
    /\ pc' = "open"
    /\ UNCHANGED <<tasks, files, i, loopVars, logVars, trace>>

\* the launch raises: "Error launching browser", return
LaunchFail ==
    /\ pc = "launch"
    /\ launches' = launches + 1
    /\ pc' = "aborted"
    /\ UNCHANGED <<tasks, files, i, loopVars, logVars, page, trace>>

\* page.goto("https://web.whatsapp.com")
OpenOk ==
    /\ pc = "open"
    /\ pc' = "login"
    /\ Record("open", <<>>, Ok)
    /\ UNCHANGED <<tasks, files, i, loopVars, logVars, launches, page>>

\* the same call raising: nothing catches it, the run ends with a traceback
OpenRaise ==
    /\ pc = "open"
    /\ \E e \in Exceptions : Record("open", <<>>, e)
    /\ pc' = "crashed"
    /\ UNCHANGED <<tasks, files, i, loopVars, logVars, launches, page>>

\* page.wait_for_selector('div[role="textbox"]', timeout=60000) returns
LoginDetected ==
    /\ pc = "login"
    /\ pc' = "loop"
    /\ Record("login_wait", <<>>, Ok)
    /\ UNCHANGED <<tasks, files, i, loopVars, logVars, launches, page>>

\* mutant: a login that is not detected ends the run
LoginNotDetected_Abort ==
    /\ pc = "login"
    /\ \E e \in Exceptions : Record("login_wait", <<>>, e)
    /\ pc' = "aborted"
    /\ UNCHANGED <<tasks, files, i, loopVars, logVars, launches, page>>

\* the same wait raising: bare except, "Login not detected", continue
LoginNotDetected ==
    /\ pc = "login"
    /\ \E e \in Exceptions : Record("login_wait", <<>>, e)
    /\ pc' = "loop"
    /\ UNCHANGED <<tasks, files, i, loopVars, logVars, launches, page>>

(* ---------------------------- the task loop ---------------------------- *)

InvalidNumberMsg == <<"Invalid phone number">>

PdfNotFoundMsg(path) == <<"PDF not found: ">> \o path

\* for task in tasks: validate the number, check that the PDF exists
LoopNext ==
    /\ pc = "loop"
    /\ i < Len(tasks)
    /\ i' = i + 1
    /\ LET name   == tasks[i + 1].name
           number == clean_phone_number(tasks[i + 1].raw_number)
           path   == PdfPath(name)
       IN  /\ trace' = Append(trace, [idx |-> i + 1, op |-> "start", page |-> page,
                                      arg |-> tasks[i + 1].raw_number, res |-> Ok])
           /\ IF number = None
              THEN /\ CallLog(tasks[i + 1].raw_number, "FAILED", InvalidNumberMsg, "loop")
                   /\ formatted_number' = number
                   /\ UNCHANGED pdf_path
              ELSE IF path \notin files
              THEN /\ CallLog(number, "FAILED", PdfNotFoundMsg(path), "loop")
                   /\ formatted_number' = number
                   /\ pdf_path' = path
              ELSE /\ pc' = "goto"
                   /\ formatted_number' = number
                   /\ pdf_path' = path
                   /\ UNCHANGED call
    /\ UNCHANGED <<tasks, files, exc, logVars, launches, page>>

\* the list is exhausted: print("All tasks completed.")
LoopEnd ==
    /\ pc = "loop"
    /\ i = Len(tasks)
    /\ pc' = "done"
    /\ UNCHANGED <<tasks, files, i, loopVars, logVars, launches, page, trace>>

(* ----------------------- the delivery step machine --------------------- *)

\* a call on the session that returns
Step(at, op, arg, next) ==
    /\ pc = at
    /\ pc' = next
    /\ Record(op, arg, Ok)
    /\ UNCHANGED <<tasks, files, i, loopVars, logVars, launches, page>>

\* a call on the session inside the try block that raises e
RaiseAt(at, op, arg, e) ==
    /\ pc = at
    /\ pc' = "except"
    /\ exc' = e
    /\ Record(op, arg, e)
    /\ UNCHANGED <<tasks, files, i, formatted_number, pdf_path, call, logVars,
                   launches, page>>

\* page.goto(f".../send?phone={formatted_number[1:]}&text=...")
Navigate ==
    \/ Step("goto", "goto", Tail(formatted_number), "wait_chat")
    \/ \E e \in Exceptions : RaiseAt("goto", "goto", Tail(formatted_number), e)

\* page.wait_for_selector(composer, timeout=30000) returns
ChatReady == Step("wait_chat", "wait_chat", <<>>, "attach_wait")

\* the same wait raising anything: the bare except goes to the probe
ChatWaitFails ==
    /\ pc = "wait_chat"
    /\ \E e \in Exceptions : Record("wait_chat", <<>>, e)
    /\ pc' = "probe"
    /\ UNCHANGED <<tasks, files, i, loopVars, logVars, launches, page>>

Present == [kind |-> "present", msg |-> ""]

Absent == [kind |-> "absent", msg |-> ""]

\* mutant: the message of the other branch pasted into this one
NotOnWhatsAppMsg_Pasted == <<"Chat load timeout">>

NotOnWhatsAppMsg == <<"Number not on WhatsApp">>

ChatTimeoutMsg == <<"Chat load timeout">>

\* mutant: the continue after the FAILED reports is missing
ProbeMarker_NoContinue ==
    /\ pc = "probe"
    /\ \/ /\ Record("probe", <<>>, Present)
          /\ CallLog(formatted_number, "FAILED", NotOnWhatsAppMsg, "attach_wait")
          /\ UNCHANGED exc
       \/ /\ Record("probe", <<>>, Absent)
          /\ CallLog(formatted_number, "FAILED", ChatTimeoutMsg, "attach_wait")
          /\ UNCHANGED exc
       \/ \E e \in Exceptions :
             /\ Record("probe", <<>>, e)
             /\ pc' = "except"
             /\ exc' = e
             /\ UNCHANGED call
    /\ UNCHANGED <<tasks, files, i, formatted_number, pdf_path, logVars, launches, page>>

\* page.locator("text=Phone number shared via url is invalid").is_visible()
ProbeMarker ==
    /\ pc = "probe"
    /\ \/ /\ Record("probe", <<>>, Present)
          /\ CallLog(formatted_number, "FAILED", NotOnWhatsAppMsg, "loop")
          /\ UNCHANGED exc
       \/ /\ Record("probe", <<>>, Absent)
          /\ CallLog(formatted_number, "FAILED", ChatTimeoutMsg, "loop")
          /\ UNCHANGED exc
       \/ \E e \in Exceptions :
             /\ Record("probe", <<>>, e)
             /\ pc' = "except"
             /\ exc' = e
             /\ UNCHANGED call
    /\ UNCHANGED <<tasks, files, i, formatted_number, pdf_path, logVars, launches, page>>

\* attach_btn.wait_for(state="visible", timeout=10000)
AttachWait ==
    \/ Step("attach_wait", "attach_wait", <<>>, "attach_click")
    \/ \E e \in Exceptions : RaiseAt("attach_wait", "attach_wait", <<>>, e)

\* attach_btn.click()
AttachClick ==
    \/ Step("attach_click", "attach_click", <<>>, "document_wait")
    \/ \E e \in Exceptions : RaiseAt("attach_click", "attach_click", <<>>, e)

\* document_btn.wait_for(state="visible", timeout=10000)
DocumentWait ==
    \/ Step("document_wait", "document_wait", <<>>, "document_click")
    \/ \E e \in Exceptions : RaiseAt("document_wait", "document_wait", <<>>, e)

\* with page.expect_file_chooser() as fc_info: document_btn.click()
DocumentClick ==
    \/ Step("document_click", "document_click", <<>>, "set_files")
    \/ \E e \in Exceptions : RaiseAt("document_click", "document_click", <<>>, e)

\* file_chooser = fc_info.value; file_chooser.set_files(pdf_path)
SetFiles ==
    \/ Step("set_files", "set_files", pdf_path, "send_wait")
    \/ \E e \in Exceptions : RaiseAt("set_files", "set_files", pdf_path, e)

\* mutant: the click follows the visibility wait without the settle sleep
SendWait_NoSettle ==
    \/ Step("send_wait", "send_wait", <<>>, "send_click")
    \/ \E e \in Exceptions : RaiseAt("send_wait", "send_wait", <<>>, e)

\* send_btn.wait_for(state="visible", timeout=30000)
SendWait ==
    \/ Step("send_wait", "send_wait", <<>>, "settle")
    \/ \E e \in Exceptions : RaiseAt("send_wait", "send_wait", <<>>, e)

\* time.sleep(3) before the click
Settle == Step("settle", "settle", <<>>, "send_click")

\* mutant: an exception of the click is swallowed
SendClick_Swallow ==
    \/ Step("send_click", "send_click", <<>>, "confirm")
    \/ /\ pc = "send_click"
       /\ \E e \in Exceptions : Record("send_click", <<>>, e)
       /\ pc' = "confirm"
       /\ UNCHANGED <<tasks, files, i, loopVars, logVars, launches, page>>

\* send_btn.click()
SendClick ==
    \/ Step("send_click", "send_click", <<>>, "confirm")
    \/ \E e \in Exceptions : RaiseAt("send_click", "send_click", <<>>, e)

SentMsg == <<"Message sent">>

\* mutant: no sleep after the SUCCESS report
Confirm_NoPace ==
    /\ pc = "confirm"
    /\ Record("confirm", <<>>, Ok)
    /\ CallLog(formatted_number, "SUCCESS", SentMsg, "loop")
    /\ UNCHANGED <<tasks, files, i, formatted_number, pdf_path, exc, logVars,
                   launches, page>>

\* time.sleep(5); log_status(name, formatted_number, "SUCCESS", "Message sent")
Confirm ==
    /\ pc = "confirm"
    /\ Record("confirm", <<>>, Ok)
    /\ CallLog(formatted_number, "SUCCESS", SentMsg, "pace")
    /\ UNCHANGED <<tasks, files, i, formatted_number, pdf_path, exc, logVars,
                   launches, page>>

\* time.sleep(3) after the SUCCESS report
Pace == Step("pace", "pace", <<>>, "loop")

\* mutant: the handler retries the recipient once before reporting
ExceptHandler_RetryOnce ==
    /\ pc = "except"
    /\ IF Cardinality({n \in 1..Len(trace) : trace[n].idx = i /\ trace[n].op = "goto"}) < 2
       THEN pc' = "goto" /\ UNCHANGED call
       ELSE CallLog(formatted_number, "ERROR", <<exc.msg>>, "loop")
    /\ UNCHANGED <<tasks, files, i, formatted_number, pdf_path, exc, logVars,
                   launches, page, trace>>

\* mutant: the handler swallows the exception without reporting it
ExceptHandler_NoReport ==
    /\ pc = "except"
    /\ pc' = "loop"
    /\ UNCHANGED <<tasks, files, i, formatted_number, pdf_path, exc, call, logVars,
                   launches, page, trace>>

\* mutant: the handler opens a fresh browser session after an error
ExceptHandler_Relaunch ==
    /\ pc = "except"
    /\ CallLog(formatted_number, "ERROR", <<exc.msg>>, "loop")
    /\ launches' = launches + 1
    /\ page' = launches + 1
    /\ UNCHANGED <<tasks, files, i, formatted_number, pdf_path, exc, logVars, trace>>

\* except Exception as e: log_status(name, formatted_number, "ERROR", str(e))
ExceptHandler ==
    /\ pc = "except"
    /\ CallLog(formatted_number, "ERROR", <<exc.msg>>, "loop")
    /\ UNCHANGED <<tasks, files, i, formatted_number, pdf_path, exc, logVars,
                   launches, page, trace>>

(* --------------------------- status reporter --------------------------- *)

\* print(f"[{status}] {name} ({number}): {message}")
LogPrint ==
    /\ pc = "log_status"
    /\ reports' = Append(reports, [idx |-> i, name |-> tasks[i].name,
                                   number |-> call.number, status |-> call.status,
                                   message |-> call.message])
    /\ Record("log_status", call.message, [kind |-> call.status, msg |-> ""])
    /\ pc' = "post"
    /\ UNCHANGED <<tasks, files, i, loopVars, sink, posted, apiFailed, launches, page>>

\* requests.post(API_URL, json=...) returns
PostOk ==
    /\ pc = "post"
    /\ sink = "up"
    /\ posted' = posted \cup {i}
    /\ pc' = call.ret
    /\ call' = NoCall
    /\ UNCHANGED <<tasks, files, i, formatted_number, pdf_path, exc, sink, reports,
                   apiFailed, launches, page, trace>>

\* mutant: log_status has no try/except around the post
PostRaise_Propagates ==
    /\ pc = "post"
    /\ sink = "up"
    /\ apiFailed' = apiFailed \cup {i}
    /\ pc' = "crashed"
    /\ call' = NoCall
    /\ UNCHANGED <<tasks, files, i, formatted_number, pdf_path, exc, sink, reports,
                   posted, launches, page, trace>>

\* requests.post raises: except Exception, "Failed to log to API", return
PostRaise ==
    /\ pc = "post"
    /\ sink = "up"
    /\ apiFailed' = apiFailed \cup {i}
    /\ pc' = call.ret
    /\ call' = NoCall
    /\ UNCHANGED <<tasks, files, i, formatted_number, pdf_path, exc, sink, reports,
                   posted, launches, page, trace>>

\* the sink accepts the request and never answers: requests.post has no
\* timeout argument, so the call does not return and nothing is enabled
PostHang ==
    /\ pc = "post"
    /\ sink = "up"
    /\ sink' = "hung"
    /\ UNCHANGED <<tasks, files, pc, i, loopVars, reports, posted, apiFailed,
                   launches, page, trace>>

(* --------------------------- specifications ---------------------------- *)

Next ==
    \/ LaunchOk \/ LaunchFail \/ OpenOk \/ OpenRaise
    \/ LoginDetected \/ LoginNotDetected
    \/ LoopNext \/ LoopEnd
    \/ Navigate \/ ChatReady \/ ChatWaitFails \/ ProbeMarker
    \/ AttachWait \/ AttachClick \/ DocumentWait \/ DocumentClick
    \/ SetFiles \/ SendWait \/ Settle \/ SendClick \/ Confirm \/ Pace
    \/ ExceptHandler
    \/ LogPrint \/ PostOk \/ PostRaise \/ PostHang

Spec == Init /\ [][Next]_vars

\* every call of the program that can return does return
FairSpec == Spec /\ WF_vars(Next)

TypeOK ==
    /\ i \in 0..Len(tasks)
    /\ launches \in 0..1
    /\ sink \in {"up", "hung"}
    /\ Len(reports) <= Len(tasks)

(* ------------------- vocabulary of the properties ---------------------- *)

SessionOps ==
    {"goto", "wait_chat", "probe", "attach_wait", "attach_click", "document_wait",
     "document_click", "set_files", "send_wait", "send_click"}

AttachSendOps ==
    {"attach_wait", "attach_click", "document_wait", "document_click", "set_files",
     "send_wait", "settle", "send_click"}

Positions == 1..Len(trace)

EventsOf(k, ops) == {n \in Positions : trace[n].idx = k /\ trace[n].op \in ops}

ReportsOf(k) == {n \in 1..Len(reports) : reports[n].idx = k}

DigitCount(raw) == Cardinality({n \in 1..Len(raw) : raw[n] \in Digit})

HasStatus(st) == \E n \in 1..Len(reports) : reports[n].status = st

\* C2: in a run that completes every task was started once and reported
\* exactly once, with a status in {SUCCESS, FAILED, ERROR}
C2_ExactlyOneReport ==
    pc = "done" =>
        \A k \in 1..Len(tasks) :
            /\ Cardinality(EventsOf(k, {"start"})) = 1
            /\ Cardinality(ReportsOf(k)) = 1
            /\ Cardinality(EventsOf(k, {"log_status"})) = 1
            /\ \A n \in ReportsOf(k) : reports[n].status \in {"SUCCESS", "FAILED", "ERROR"}

C2_Witness ==
    /\ pc = "done"
    /\ Len(tasks) >= 2
    /\ HasStatus("ERROR")
    /\ HasStatus("FAILED")
    /\ \E k \in 1..Len(tasks) : EventsOf(k, {"probe"}) # {}

\* C3: attempts occur in list order, and recipient k+1 is started only after
\* the terminal status of recipient k has been reported
C3_ListOrder ==
    /\ \A n \in 1..Len(reports) : reports[n].idx = n
    /\ \A n \in Positions :
          (trace[n].op = "start" /\ trace[n].idx > 1) =>
              /\ \E m \in 1..(n - 1) :
                    trace[m].op = "log_status" /\ trace[m].idx = trace[n].idx - 1
              /\ \A m \in Positions :
                    (m > n) => trace[m].idx >= trace[n].idx
    /\ \A n, m \in Positions :
          (n < m /\ trace[n].op = "start" /\ trace[m].op = "start") =>
              trace[m].idx = trace[n].idx + Cardinality({q \in (n + 1)..m : trace[q].op = "start"})

C3_Witness ==
    /\ Len(reports) >= 2
    /\ reports[1].status = "ERROR"
    /\ EventsOf(2, {"goto"}) # {}

C5_RejectedBeforeSession ==
    \A k \in 1..i :
        LET raw  == tasks[k].raw_number
            path == PdfPath(tasks[k].name)
        IN  /\ DigitCount(raw) < 10 =>
                /\ EventsOf(k, SessionOps) = {}
                /\ \A n \in ReportsOf(k) :
                      /\ reports[n].status = "FAILED"
                      /\ reports[n].message = <<"Invalid phone number">>
            /\ (DigitCount(raw) >= 10 /\ path \notin files) =>
                /\ EventsOf(k, SessionOps) = {}
                /\ \A n \in ReportsOf(k) :
                      /\ reports[n].status = "FAILED"
                      /\ reports[n].message = <<"PDF not found: ">> \o path

C5_Witness ==
    /\ pc = "done"
    /\ \E k \in 1..Len(tasks) : DigitCount(tasks[k].raw_number) < 10
    /\ \E k \in 1..Len(tasks) :
          /\ DigitCount(tasks[k].raw_number) >= 10
          /\ PdfPath(tasks[k].name) \notin files

ChatTimedOut(k) ==
    \E n \in EventsOf(k, {"wait_chat"}) : trace[n].res.kind = "TimeoutError"

Probed(k, r) == \E n \in EventsOf(k, {"probe"}) : trace[n].res.kind = r

Reported(k, st, msg) ==
    \E n \in ReportsOf(k) : reports[n].status = st /\ reports[n].message = msg

\* C6: after a timeout of the chat wait the report is FAILED/"Number not on
\* WhatsApp" exactly when the probe saw the marker and FAILED/"Chat load
\* timeout" exactly when it did not, and no attach or send step follows
C6_TimeoutDisambiguation ==
    \A k \in 1..i :
        ChatTimedOut(k) =>
            /\ EventsOf(k, AttachSendOps) = {}
            /\ ReportsOf(k) # {} =>
                  /\ Reported(k, "FAILED", <<"Number not on WhatsApp">>) <=> Probed(k, "present")
                  /\ Reported(k, "FAILED", <<"Chat load timeout">>) <=> Probed(k, "absent")
                  /\ ~(Probed(k, "present") /\ Probed(k, "absent"))
            /\ (Probed(k, "present") \/ Probed(k, "absent")) =>
                  (k < i \/ pc \in {"log_status", "post", "loop", "done"})

C6_Witness ==
    /\ pc = "done"
    /\ \E k \in 1..Len(tasks) : ChatTimedOut(k) /\ Probed(k, "present")
    /\ \E k \in 1..Len(tasks) : ChatTimedOut(k) /\ Probed(k, "absent")

\* C7 as stated: every exception of the step machine that is not a timeout is
\* reported as ERROR with the exception's message
C7_NonTimeoutIsError ==
    \A k \in 1..i :
        \A n \in EventsOf(k, SessionOps) :
            trace[n].res.kind = "Error" =>
                \A m \in ReportsOf(k) :
                    /\ reports[m].status = "ERROR"
                    /\ reports[m].message = <<trace[n].res.msg>>

\* what the code reports for recipient k, read off the task, the folder and
\* the outcomes of the session calls alone
ExpectedStatus(k) ==
    IF DigitCount(tasks[k].raw_number) < 10 THEN "FAILED"
    ELSE IF PdfPath(tasks[k].name) \notin files THEN "FAILED"
    ELSE IF \E n \in EventsOf(k, SessionOps \ {"wait_chat"}) : trace[n].res \in Exceptions
         THEN "ERROR"
    ELSE IF EventsOf(k, {"probe"}) # {} THEN "FAILED"
    ELSE "SUCCESS"

ExpectedMessage(k) ==
    IF DigitCount(tasks[k].raw_number) < 10 THEN <<"Invalid phone number">>
    ELSE IF PdfPath(tasks[k].name) \notin files
         THEN <<"PDF not found: ">> \o PdfPath(tasks[k].name)
    ELSE IF \E n \in EventsOf(k, SessionOps \ {"wait_chat"}) : trace[n].res \in Exceptions
         THEN LET n == CHOOSE n \in EventsOf(k, SessionOps \ {"wait_chat"}) :
                           trace[n].res \in Exceptions
              IN  <<trace[n].res.msg>>
    ELSE IF Probed(k, "present") THEN <<"Number not on WhatsApp">>
    ELSE IF Probed(k, "absent") THEN <<"Chat load timeout">>
    ELSE <<"Message sent">>

\* C8: the sink raising never reaches the orchestrator: the run does not
\* crash, a recipient whose post raised is reported once with the status and
\* message it gets when the post works, and a completed run has a report
\* for every task
C8_SinkFailureIsolated ==
    /\ i >= 1 => pc # "crashed"
    /\ \A n \in 1..Len(reports) :
          /\ reports[n].status = ExpectedStatus(reports[n].idx)
          /\ reports[n].message = ExpectedMessage(reports[n].idx)
    /\ \A k \in apiFailed : Cardinality(ReportsOf(k)) = 1
    /\ apiFailed \cap posted = {}
    /\ pc = "done" => apiFailed \cup posted = 1..Len(tasks)

C8_Witness ==
    /\ pc = "done"
    /\ Len(tasks) >= 2
    /\ apiFailed = 1..Len(tasks)
    /\ HasStatus("SUCCESS")
    /\ HasStatus("ERROR")

\* C10: the browser is launched at most once and every session call of every
\* recipient goes to the page that was opened before the first recipient
C10_SingleSession ==
    /\ launches <= 1
    /\ \A n, m \in Positions :
          (trace[n].op = "open" /\ trace[m].op \in SessionOps) =>
              trace[m].page = trace[n].page
    /\ \A m \in Positions : trace[m].op \in SessionOps => trace[m].page = page

C10_Witness ==
    /\ pc = "done"
    /\ Len(reports) >= 2
    /\ reports[1].status = "ERROR"
    /\ reports[2].status = "SUCCESS"
    /\ EventsOf(1, {"send_click"}) # {}
    /\ EventsOf(2, {"send_click"}) # {}

AllReported == \A k \in 1..Len(tasks) : ReportsOf(k) # {}

\* C1 as stated: once the session exists the loop runs over the whole list:
\* every recipient is reported and the run reaches "All tasks completed"
C1_RunCompletes == (pc = "loop") ~> (pc = "done" /\ AllReported)

\* C9 as stated: every call of log_status returns to the orchestrator
C9_LogStatusReturns == (pc = "log_status") ~> (pc \in {"loop", "pace"})

LoginFailed ==
    \E n \in Positions : trace[n].op = "login_wait" /\ trace[n].res \in Exceptions

\* C11: when the login marker does not appear in time the run is not
\* aborted: the orchestrator is at the head of the loop with the whole list
\* ahead of it, and a run that completes has started and reported every task
C11_LoginTimeoutNonFatal ==
    LoginFailed =>
        /\ pc \notin {"aborted", "crashed", "login", "open", "launch"}
        /\ (i = 0) => (pc = "loop" /\ reports = <<>>)
        /\ pc = "done" =>
              \A k \in 1..Len(tasks) :
                  EventsOf(k, {"start"}) # {} /\ ReportsOf(k) # {}

C11_Witness ==
    /\ LoginFailed
    /\ pc = "done"
    /\ Len(reports) >= 2
    /\ HasStatus("SUCCESS")

(* ------------------ the number normalizer on its own ------------------- *)

RawAlphabet == {"1", "2", "-"}

RawStringsUpTo(n) == UNION { [1..k -> RawAlphabet] : k \in 0..n }

\* the state before the loop body runs on the single task t
Loaded(t, at) ==
    /\ tasks = <<t>>
    /\ files = {}
    /\ pc = at
    /\ i = 0
    /\ formatted_number = None
    /\ pdf_path = <<>>
    /\ exc = Ok
    /\ call = NoCall
    /\ launches = 0
    /\ page = 0
    /\ sink = "up"
    /\ reports = <<>>
    /\ posted = {}
    /\ apiFailed = {}
    /\ trace = <<>>

NormalizeInit ==
    \E a \in RawStringsUpTo(MaxRawLen \div 2) :
        \E b \in RawStringsUpTo(MaxRawLen - (MaxRawLen \div 2)) :
            Loaded([name |-> <<"a">>, raw_number |-> a \o b], "normalize")

\* formatted_number = clean_phone_number(raw_number)
CallCleanPhoneNumber ==
    /\ pc = "normalize"
    /\ formatted_number' = clean_phone_number(tasks[1].raw_number)
    /\ pc' = "normalized"
    /\ UNCHANGED <<tasks, files, i, pdf_path, exc, call, logVars, launches, page, trace>>

NormalizeNext == CallCleanPhoneNumber

NormalizeSpec == NormalizeInit /\ [][NormalizeNext]_vars

\* the m-th digit of raw counted from its end
DigitFromEnd(raw, m) ==
    raw[CHOOSE p \in 1..Len(raw) :
            /\ raw[p] \in Digit
            /\ Cardinality({q \in p..Len(raw) : raw[q] \in Digit}) = m]

\* C12: fewer than 10 digits give None; otherwise the result is "+91"
\* followed by exactly the last 10 digits of the input, in order
C12_Normalize ==
    pc = "normalized" =>
        LET raw == tasks[1].raw_number
        IN  IF DigitCount(raw) < 10
            THEN formatted_number = None
            ELSE /\ Len(formatted_number) = 13
                 /\ SubSeq(formatted_number, 1, 3) = <<"+", "9", "1">>
                 /\ \A m \in 1..10 :
                       formatted_number[14 - m] = DigitFromEnd(raw, m)

C12_Witness ==
    /\ pc = "normalized"
    /\ formatted_number # None
    /\ DigitCount(tasks[1].raw_number) = 11
    /\ Len(tasks[1].raw_number) = 12
    /\ tasks[1].raw_number[1] # tasks[1].raw_number[3]

(* ------------- the file name rule and the document writer ------------- *)

NameAlphabet == Forbidden \cup {"a", " ", "_"}

Names == UNION { [1..n -> NameAlphabet] : n \in 0..MaxNameLen }

NameInit ==
    \E n \in Names : Loaded([name |-> n, raw_number |-> GoodNumber], "generate")

\* process_kankotri.py: output_filename = f"{name}.pdf"
output_filename(name) == name \o PdfExt

\* process_pdfs writes the merged document of the row (rows with an empty
\* name are skipped); a name with a path separator does not name a file of
\* the output directory, open() raises for it
ProcessPdfs ==
    /\ pc = "generate"
    /\ \A p \in 1..Len(tasks[1].name) : tasks[1].name[p] # "/"
    /\ files' = IF tasks[1].name = <<>> THEN {} ELSE {output_filename(tasks[1].name)}
    /\ pc' = "sanitize"
    /\ UNCHANGED <<tasks, i, loopVars, logVars, launches, page, trace>>

\* the try block of process_pdfs raises: "Error processing", no document
ProcessPdfsError ==
    /\ pc = "generate"
    /\ tasks[1].name # <<>>
    /\ files' = {}
    /\ pc' = "sanitize"
    /\ UNCHANGED <<tasks, i, loopVars, logVars, launches, page, trace>>

\* safe_name = get_safe_filename(name); the file looked up is safe_name.pdf
SanitizeOnce ==
    /\ pc = "sanitize"
    /\ LET safe_name == get_safe_filename(tasks[1].name)
       IN  /\ Record("get_safe_filename", tasks[1].name, safe_name)
           /\ pdf_path' = safe_name \o PdfExt
    /\ pc' = "sanitized"
    /\ UNCHANGED <<tasks, files, i, formatted_number, exc, call, logVars, launches, page>>

\* get_safe_filename applied to its own result
SanitizeTwice ==
    /\ pc = "sanitized"
    /\ Record("get_safe_filename", trace[1].res, get_safe_filename(trace[1].res))
    /\ pc' = "resanitized"
    /\ UNCHANGED <<tasks, files, i, loopVars, logVars, launches, page>>

NameNext == ProcessPdfs \/ ProcessPdfsError \/ SanitizeOnce \/ SanitizeTwice

NameSpec == NameInit /\ [][NameNext]_vars

\* every forbidden character replaced by an underscore, one for one
Underscored(name) ==
    [p \in 1..Len(name) |-> IF name[p] \in Forbidden THEN "_" ELSE name[p]]

\* s without its leading and trailing whitespace
Trimmed(s) ==
    LET solid == {p \in 1..Len(s) : s[p] \notin Whitespace}
    IN  IF solid = {} THEN <<>>
        ELSE SubSeq(s, CHOOSE p \in solid : \A q \in solid : p <= q,
                       CHOOSE p \in solid : \A q \in solid : q <= p)

\* the positions of name that survive: every allowed character and the
\* first character of every run of forbidden ones
Kept(name) ==
    {p \in 1..Len(name) :
        name[p] \notin Forbidden \/ p = 1 \/ name[p - 1] \notin Forbidden}

RunsUnderscored(name) ==
    [j \in 1..Cardinality(Kept(name)) |->
        Underscored(name)[CHOOSE p \in Kept(name) :
                              Cardinality({q \in Kept(name) : q <= p}) = j]]

\* C13 as stated: one underscore per forbidden character, then trimmed
C13_CharForChar ==
    pc = "sanitized" => trace[1].res = Trimmed(Underscored(tasks[1].name))

\* C13 amended: one underscore per maximal run of forbidden characters,
\* every other character unchanged, then surrounding whitespace trimmed
C13_RunForUnderscore ==
    pc = "sanitized" => trace[1].res = Trimmed(RunsUnderscored(tasks[1].name))

C13_Witness ==
    /\ pc = "sanitized"
    /\ Len(tasks[1].name) = 3
    /\ tasks[1].name[1] = " "
    /\ tasks[1].name[2] \in Forbidden
    /\ tasks[1].name[3] \in Forbidden
    /\ tasks[1].name[2] # tasks[1].name[3]
    /\ trace[1].res = <<"_">>

\* C14: sanitizing a sanitized name changes nothing
C14_Idempotent ==
    pc = "resanitized" => trace[2].res = trace[1].res

C14_Witness ==
    /\ pc = "resanitized"
    /\ trace[1].res # tasks[1].name
    /\ \E p \in 1..Len(tasks[1].name) : tasks[1].name[p] \in Forbidden
    /\ \E p \in 1..Len(tasks[1].name) : tasks[1].name[p] \in Whitespace
    /\ trace[2].arg = trace[1].res

\* C15 as stated: the document written for a name is the file the lookup
\* for that name asks for
C15_GeneratedIsFound ==
    (pc = "sanitized" /\ files # {}) => pdf_path \in files

(* ---------------------- the send and its report ------------------------ *)

\* the calls of op for recipient k that returned before position n
Done(k, op, n) == {p \in EventsOf(k, {op}) : p < n /\ trace[p].res = Ok}

\* C16: a send is issued only after navigation, composer ready, attach
\* menu, document option, file set with the recipient's path, send button
\* visible and settle delay, in this order and for the same recipient
C16_SendAfterAllSteps ==
    \A n \in Positions :
        trace[n].op = "send_click" =>
            LET k == trace[n].idx
            IN  \E p1 \in Done(k, "goto", n), p2 \in Done(k, "wait_chat", n),
                   p3 \in Done(k, "attach_click", n), p4 \in Done(k, "document_click", n),
                   p5 \in Done(k, "set_files", n), p6 \in Done(k, "send_wait", n),
                   p7 \in Done(k, "settle", n) :
                    /\ p1 < p2 /\ p2 < p3 /\ p3 < p4 /\ p4 < p5 /\ p5 < p6 /\ p6 < p7
                    /\ p7 = n - 1
                    /\ trace[p5].arg = PdfPath(tasks[k].name)

C16_Witness ==
    /\ Len(reports) >= 2
    /\ EventsOf(1, {"send_click"}) # {}
    /\ EventsOf(2, {"send_click"}) # {}
    /\ \E n \in EventsOf(2, {"send_click"}) : trace[n].res \in Exceptions

\* C17: the send is issued at most once per task, no step is retried and a
\* recipient is not re-entered after its report
C17_NoDuplicateSend ==
    /\ \A k \in 1..Len(tasks) :
          \A op \in SessionOps : Cardinality(EventsOf(k, {op})) <= 1
    /\ \A n, m \in Positions :
          (n < m /\ trace[n].op = "log_status" /\ trace[m].idx = trace[n].idx) =>
              trace[m].op = "pace"

C17_Witness ==
    /\ pc = "done"
    /\ Len(tasks) >= 2
    /\ \E n \in EventsOf(1, {"send_click"}) : trace[n].res \in Exceptions
    /\ \E n \in EventsOf(2, {"send_click"}) : trace[n].res = Ok
    /\ tasks[1] = tasks[2]

Sent(k) ==
    \E n \in EventsOf(k, {"send_click"}) :
        /\ trace[n].res = Ok
        /\ \A m \in Positions :
              (m > n /\ trace[m].idx = k) => trace[m].res \notin Exceptions

\* C18: a recipient is reported SUCCESS exactly when its send was invoked
\* and nothing raised from the click to the report; a recipient reported
\* FAILED never had a send invoked
C18_OptimisticConfirmation ==
    \A n \in 1..Len(reports) :
        /\ (reports[n].status = "SUCCESS") <=> Sent(reports[n].idx)
        /\ (reports[n].status = "FAILED") => EventsOf(reports[n].idx, {"send_click"}) = {}

C18_Witness ==
    /\ pc = "done"
    /\ Len(reports) >= 2
    /\ reports[1].status = "ERROR"
    /\ \E n \in EventsOf(1, {"send_click"}) : trace[n].res \in Exceptions
    /\ reports[2].status = "SUCCESS"
    /\ 2 \in apiFailed

====
